---- MODULE Spec2Model ----
(***************************************************************************)
(* Model of the wifi station manager of pycameresp                         *)
(* (modules/lib/wifi/station.py) together with the helpers of              *)
(* modules/lib/tools/useful.py it uses.                                    *)
(*                                                                         *)
(* Station is a class used as a process wide singleton: its attributes     *)
(* wlan, config and networks are the manager's state.  The radio driver    *)
(* (network.WLAN) and the configuration store (tools.jsonconfig) are       *)
(* collaborators; the model keeps their observable state (the driver's     *)
(* active flag, link state and interface addresses, the persisted          *)
(* configuration) and draws their answers from small sets.                 *)
(***************************************************************************)
EXTENDS Integers, Sequences, FiniteSets, TLC

VARIABLES
    wlan,         \* Station.wlan: "None" or "STA_IF"
    config,       \* Station.config: NoConfig or a StationConfig record
    networks,     \* Station.networks: cached (ssid, channel, authmode) triples
    drvActive,    \* radio driver: WLAN.active()
    drvConnected, \* radio driver: WLAN.isconnected()
    drvIfconfig,  \* radio driver: WLAN.ifconfig() = (ip, netmask, gateway, dns)
    store,        \* configuration store: what StationConfig.load() finds
    ret,          \* last call: operation, arguments, outcome, what happened inside,
                  \* the driver's behaviour during its connection attempt, and
                  \* (after) how the connection attempt of the call before ended
    trace,        \* last call: the store and driver commands it issued, in order
    polls,        \* last call: iterations of connect's poll loop (sleeps)
    notes,        \* last call: "Try wifi connection" notifications
    lastScan      \* the list the driver returned to the latest WLAN.scan()

vars == <<wlan, config, networks, drvActive, drvConnected, drvIfconfig,
          store, ret, trace, polls, notes, lastScan>>

(***************************************************************************)
(* Bounds of the model.                                                    *)
(***************************************************************************)
MaxNets == 3

(***************************************************************************)
(* Program constants.                                                      *)
(***************************************************************************)
MaxCount == 120
NotifyEvery == 6

(***************************************************************************)
(* Python values.  A text value carries its type, so that b"" and "" are   *)
(* different values, as they are in Python.  The text of an address is the *)
(* sequence of its octets ("192.168.1.1" is <<192, 168, 1, 1>>), the empty *)
(* text is <<>>; ssids and passwords are TLA+ strings.                     *)
(***************************************************************************)
None == <<"None", <<>>>>
IsNone(v) == v[1] = "None"
Str(t) == <<"str", t>>
Bytes(t) == <<"bytes", t>>

\* useful.tobytes, on the scalar values the station passes to it
tobytes(datas) == IF datas[1] = "str" THEN <<"bytes", datas[2]>> ELSE datas

\* useful.tostrings, on the scalar values the station passes to it
tostrings(datas) == IF datas[1] = "bytes" THEN <<"str", datas[2]>> ELSE datas

Empty == <<>>
Sentinel == <<0, 0, 0, 0>>

\* StationConfig.__init__
DefaultConfig ==
    [isNone |-> FALSE, activated |-> TRUE,
     wifipassword |-> Bytes(""), ssid |-> Bytes(""),
     ipaddress |-> Bytes(Empty), netmask |-> Bytes(Empty),
     gateway |-> Bytes(Empty), dns |-> Bytes(Empty)]

\* Station.config = None
NoConfig == [DefaultConfig EXCEPT !.isNone = TRUE]

AddressFields == {"ipaddress", "netmask", "gateway", "dns"}

\* position of a field in the tuple WLAN.ifconfig() returns
FieldIndex(f) ==
    CASE f = "ipaddress" -> 1 [] f = "netmask" -> 2 [] f = "gateway" -> 3 [] f = "dns" -> 4

(***************************************************************************)
(* The handlers are functions of a "world" w: the manager's attributes,    *)
(* the driver's state and the record of what the call did.  start() calls  *)
(* configure() and connect(), so the handlers compose.                     *)
(***************************************************************************)
\* no connection was attempted: the driver was asked nothing
NoBehaviour == [up |-> 0, down |-> 0]

World ==
    [wlan |-> wlan, config |-> config, networks |-> networks,
     active |-> drvActive, connected |-> drvConnected, ifconfig |-> drvIfconfig,
     lastScan |-> lastScan,
     trace |-> <<>>, polls |-> 0, notes |-> {}, checks |-> 0,
     everUp |-> FALSE, beh |-> NoBehaviour,
     res |-> "None", raised |-> FALSE, conn |-> "none", pushed |-> FALSE]

\* an unhandled Python exception leaves the handler at once
Raise(w) == [w EXCEPT !.res = "raised", !.raised = TRUE]

Emit(w, event) == [w EXCEPT !.trace = Append(@, event)]

(***************************************************************************)
(* Station.isActive                                                        *)
(***************************************************************************)
isActive(w) == IF w.wlan = "None" THEN FALSE ELSE w.active

(***************************************************************************)
(* Station.configure.  p gives the four parameters (None when omitted);    *)
(* rejects says whether the driver refuses a static assignment, which it   *)
(* does by raising from WLAN.ifconfig() ("ifconfig_refused").              *)
(***************************************************************************)
\* lines 102-105: an explicit parameter overrides the stored field
Override(param, stored) == IF ~IsNone(param) THEN tobytes(param) ELSE stored

\* lines 107-110: an empty field is read from the live interface
Fallback(value, live) == IF value = Bytes(Empty) THEN tobytes(live) ELSE value

\* lines 112-115: the sentinel becomes the empty text
NormalizeKeep(value) == value
Normalize(value) == IF value = Bytes(Sentinel) THEN Bytes(Empty) ELSE value

\* one field through lines 102-115
ResolveField(param, stored, live) ==
    Normalize(Fallback(Override(param, stored), live))

\* lines 118-121: all four fields are set
AllResolvedAny(c) == \E f \in AddressFields : c[f] # Bytes(Empty)
AllResolved(c) == \A f \in AddressFields : c[f] # Bytes(Empty)

\* lines 127-128: the driver's refusal of the assignment is caught and printed
pushRejectedEscapes(w) == Raise(w)
pushRejected(w) == Emit(w, "print_error")

configure(w, p, rejects) ==
    IF w.config.isNone THEN Raise(w)    \* None has no attribute ipaddress
    ELSE
    LET c == [f \in DOMAIN w.config |->
                 IF f \in AddressFields
                 THEN ResolveField(p[f], w.config[f], w.ifconfig[FieldIndex(f)])
                 ELSE w.config[f]]
        w1 == [Emit(w, "configure") EXCEPT !.config = c]
    IN  IF AllResolved(c)
        THEN LET w2 == [Emit(w1, "ifconfig_set") EXCEPT !.pushed = TRUE]
             IN  IF rejects THEN pushRejected(Emit(w2, "ifconfig_refused"))
                 ELSE [w2 EXCEPT !.ifconfig =
                          <<tostrings(c.ipaddress), tostrings(c.netmask),
                            tostrings(c.gateway), tostrings(c.dns)>>]
        ELSE w1

(***************************************************************************)
(* Station.connect.  beh is the driver's behaviour once WLAN.connect() has *)
(* been issued: its i-th answer to isconnected() (i = 1, 2, ...) is true   *)
(* exactly when beh.up <= i < beh.down.                                    *)
(***************************************************************************)
Answer(beh, i) == i >= beh.up /\ i < beh.down

\* line 70: a notification on the polls whose count is a multiple of 6
NotifiesAlways(count) == TRUE
Notifies(count) == count % NotifyEvery = 0

\* line 73: the attempt bound
ExhaustedNever(count) == FALSE
Exhausted(count) == count > MaxCount

\* lines 67-74: one pass of the poll loop.  l.count is the loop's counter,
\* l.checks the number of isconnected() answers consumed so far, l.notes
\* the polls (numbered from 1) that notified, l.done that the loop is left.
PollStep(beh, l) ==
    IF Answer(beh, l.checks + 1)
    THEN [l EXCEPT !.checks = @ + 1, !.done = TRUE]    \* the while condition fails
    ELSE [count |-> l.count + 1,                        \* sleep(0.5), count += 1
          checks |-> l.checks + 1,
          notes |-> IF Notifies(l.count) THEN l.notes \cup {l.count + 1} ELSE l.notes,
          done |-> Exhausted(l.count + 1)]              \* break

\* at most n passes
RECURSIVE PollRun(_, _, _)
PollRun(beh, l, n) ==
    IF l.done \/ n = 0 THEN l ELSE PollRun(beh, PollStep(beh, l), n - 1)

\* the whole loop, run sixteen passes at a time to keep the evaluation flat
RECURSIVE PollRest(_, _)
PollRest(beh, l) == IF l.done THEN l ELSE PollRest(beh, PollRun(beh, l, 16))

PollLoop(beh) == PollRest(beh, [count |-> 0, checks |-> 0, notes |-> {}, done |-> FALSE])

\* The behaviours considered: the link comes up at the up-th answer and
\* either stays or is lost again at once; Never lies behind every answer
\* connect() asks for.
Never == MaxCount + 3
Behaviour(up, stays) == [up |-> up, down |-> IF stays THEN Never + 1 ELSE up + 1]
AllBehaviours == {Behaviour(up, stays) : up \in 1..Never, stays \in BOOLEAN}
SomeBehaviours ==
    {Behaviour(up, stays) : up \in {1, 2, NotifyEvery + 1, MaxCount + 1, MaxCount + 2, Never},
                            stays \in BOOLEAN}

\* the loop's outcome under each behaviour, computed once
Loops == [beh \in AllBehaviours |-> PollLoop(beh)]

\* line 77: the driver is asked once more after the loop
LoopAnswer(beh, loop) == Answer(beh, loop.checks)
LastAnswer(beh, loop) == Answer(beh, loop.checks + 1)

\* line 78: a failed attempt deactivates the driver
onTimeoutKeepsActive(w) ==
    [w EXCEPT !.connected = FALSE, !.res = "False", !.conn = "timeout"]
onTimeout(w) ==
    [Emit(w, "active_off") EXCEPT !.active = FALSE, !.connected = FALSE,
                                  !.res = "False", !.conn = "timeout"]

\* lines 77-80: the outcome, from the answer to the check after the loop
connectOutcome(w, beh, loop) ==
    LET w1 == [w EXCEPT !.polls = loop.count, !.notes = loop.notes,
                        !.checks = loop.checks + 1,
                        !.everUp = Answer(beh, loop.checks) \/ Answer(beh, loop.checks + 1)]
    IN  IF LastAnswer(beh, loop)
        THEN [w1 EXCEPT !.connected = TRUE, !.res = "True", !.conn = "ok"]
        ELSE onTimeout(w1)

\* line 62: the driver already reports a connection
AlreadyConnectedNever(w) == FALSE
AlreadyConnected(w) == w.connected

connect(w, ssid, password, beh) ==
    IF w.config.isNone /\ (~IsNone(ssid) \/ ~IsNone(password))
    THEN Raise(w)                       \* None has no attribute ssid
    ELSE
    LET c  == [w.config EXCEPT
                 !.ssid = IF ~IsNone(ssid) THEN ssid ELSE @,
                 !.wifipassword = IF ~IsNone(password) THEN password ELSE @]
        w1 == [w EXCEPT !.config = c]
    IN  IF w1.wlan = "None" THEN Raise(w1)  \* None has no attribute isconnected
        ELSE IF ~AlreadyConnected(w1)
        THEN LET w2 == [Emit(Emit(w1, "active_on"), "connect") EXCEPT
                           !.active = TRUE, !.beh = beh]
             IN  connectOutcome(w2, beh, Loops[beh])
        ELSE [w1 EXCEPT !.res = "True", !.conn = "already", !.everUp = TRUE]

(***************************************************************************)
(* Station.disconnect.  It is declared @staticmethod with one parameter    *)
(* (self): nargs is the number of arguments the caller passes.             *)
(***************************************************************************)
disconnect(w, nargs) ==
    IF nargs # 1 THEN Raise(w)          \* TypeError: wrong number of arguments
    ELSE IF w.wlan = "None" THEN Raise(w)
    ELSE IF w.connected
    THEN [Emit(Emit(w, "disconnect"), "active_off") EXCEPT
            !.connected = FALSE, !.active = FALSE]
    ELSE w

(***************************************************************************)
(* Station.getInfo, Station.isConnected                                    *)
(***************************************************************************)
getInfo(w) ==
    IF w.wlan # "None" /\ w.connected THEN [w EXCEPT !.res = "ifconfig"]
    ELSE [w EXCEPT !.res = "None"]

isConnected(w) ==
    IF w.wlan = "None" THEN Raise(w)
    ELSE [w EXCEPT !.res = IF w.connected THEN "True" ELSE "False"]

(***************************************************************************)
(* Station.scan.  found is the list WLAN.scan() returns: tuples            *)
(* (ssid, bssid, channel, rssi, authmode, hidden).                         *)
(***************************************************************************)
Rssi(net) == net[4]

\* sorted(..., key=lambda x: x[3], reverse=True) is a stable sort: x goes
\* behind every element that is at least as strong
RECURSIVE InsertByRssiBeforeTies(_, _)
InsertByRssiBeforeTies(s, x) ==
    IF s = <<>> THEN <<x>>
    ELSE IF Rssi(s[1]) > Rssi(x) THEN <<s[1]>> \o InsertByRssiBeforeTies(Tail(s), x)
    ELSE <<x>> \o s
RECURSIVE InsertByRssi(_, _)
InsertByRssi(s, x) ==
    IF s = <<>> THEN <<x>>
    ELSE IF Rssi(s[1]) >= Rssi(x) THEN <<s[1]>> \o InsertByRssi(Tail(s), x)
    ELSE <<x>> \o s

RECURSIVE SortedByRssi(_, _)
SortedByRssi(done, rest) ==
    IF rest = <<>> THEN done
    ELSE SortedByRssi(InsertByRssi(done, rest[1]), Tail(rest))

\* line 148: (ssid, channel, authmode)
Project(net) == <<net[1], net[3], net[5]>>

\* line 144: when the driver is asked
MustScan(w, force) == force \/ Len(w.networks) = 0

scan(w, force, found) ==
    IF MustScan(w, force)
    THEN LET w1 == [w EXCEPT !.networks = <<>>]
         IN  IF w1.wlan = "None" THEN Raise(w1)   \* None has no attribute scan
             ELSE LET sorted == SortedByRssi(<<>>, found)
                  IN  [Emit(w1, "scan") EXCEPT
                         !.lastScan = found,
                         !.networks = [i \in 1..Len(sorted) |-> Project(sorted[i])],
                         !.res = "networks"]
    ELSE [w EXCEPT !.res = "networks"]

(***************************************************************************)
(* StationConfig.load: the configuration store's answer.  st.ok says       *)
(* whether the load succeeds; the loaded object holds the persisted fields.*)
(***************************************************************************)
load(st) ==
    [DefaultConfig EXCEPT
       !.activated = st.activated, !.ssid = st.ssid, !.wifipassword = st.wifipassword,
       !.ipaddress = st.ipaddress, !.netmask = st.netmask,
       !.gateway = st.gateway, !.dns = st.dns]

(***************************************************************************)
(* Station.start                                                           *)
(***************************************************************************)
\* line 158
MayBindAlways(cfg, force) == TRUE
MayBind(cfg, force) == cfg.activated \/ force

\* line 169: the result once the driver is bound
startResultFromConnect(w) == [w EXCEPT !.res = IF w.conn = "timeout" THEN "False" ELSE "True"]
startResult(w) == [w EXCEPT !.res = "True"]

\* line 162: the cache is dropped
clearNetworksSkipped(w) == w
clearNetworks(w) == [Emit(w, "clear_networks") EXCEPT !.networks = <<>>]

\* lines 159-169
startBind(w, cfg, beh, rejects) ==
    LET w1 == [Emit(w, "bind") EXCEPT !.wlan = "STA_IF"]
        w2 == [Emit(w1, "set_config") EXCEPT !.config = cfg]
        w3 == clearNetworks(w2)
        w4 == configure(w3, [f \in AddressFields |-> None], rejects)
        w5 == connect(w4, None, None, beh)
    IN  IF w4.raised THEN w4            \* an exception leaves start() as well
        ELSE startResult(Emit(w5, IF w5.res = "True" THEN "print_config" ELSE "print_failed"))

\* line 155: the already-started shortcut
SkipsStartNever(w) == FALSE
SkipsStart(w) == isActive(w)

start(w, st, force, beh, rejects) ==
    IF ~SkipsStart(w)
    THEN LET w1 == Emit(w, "load")
         IN  IF st.ok
             THEN IF MayBind(load(st), force)
                  THEN startBind(w1, load(st), beh, rejects)
                  ELSE [Emit(w1, "print_disabled") EXCEPT !.res = "False"]
             ELSE [Emit(w1, "print_not_initialized") EXCEPT !.res = "False"]
    ELSE [Emit(w, "print_config") EXCEPT !.res = "True"]

(***************************************************************************)
(* Station.stop                                                            *)
(***************************************************************************)
stopForgets(w) ==
    IF ~isActive(w) THEN Emit(w, "print_stopped")
    ELSE [w EXCEPT !.config = NoConfig, !.networks = <<>>]
stopTearsDown(w) ==
    IF ~isActive(w) THEN Emit(w, "print_stopped")
    ELSE [Emit(w, "active_off") EXCEPT !.active = FALSE, !.connected = FALSE]
stop(w) == IF ~isActive(w) THEN Emit(w, "print_stopped") ELSE w

(***************************************************************************)
(* useful.iptoint, useful.issameinterface and Station.isIpOnInterface.     *)
(* A Python int is unbounded; the 32 bit value (a<<24)+(b<<16)+(c<<8)+d of *)
(* an address with octets in 0..255 is kept as its two 16 bit halves       *)
(* <<a*256+b, c*256+d>>, on which & acts half by half.                     *)
(***************************************************************************)
iptoint(ipaddr) ==
    <<ipaddr[2][1] * 256 + ipaddr[2][2], ipaddr[2][3] * 256 + ipaddr[2][4]>>

RECURSIVE BitAnd(_, _)
BitAnd(a, b) ==
    IF a = 0 \/ b = 0 THEN 0
    ELSE (a % 2) * (b % 2) + 2 * BitAnd(a \div 2, b \div 2)

And32(x, y) == <<BitAnd(x[1], y[1]), BitAnd(x[2], y[2])>>

issameinterfaceUnmasked(ipaddr, ipinterface, maskinterface) ==
    iptoint(ipaddr) = iptoint(ipinterface)
issameinterface(ipaddr, ipinterface, maskinterface) ==
    And32(iptoint(ipaddr), iptoint(maskinterface))
        = And32(iptoint(ipinterface), iptoint(maskinterface))

isIpOnInterface(w, ipAddr) ==
    LET info == getInfo(w)
    IN  IF info.res # "None"
        THEN IF Len(ipAddr[2]) # 4 THEN Raise(w)   \* int("") is a ValueError
             ELSE [w EXCEPT !.res =
                     IF issameinterface(tostrings(ipAddr), w.ifconfig[1], w.ifconfig[2])
                     THEN "True" ELSE "False"]
        ELSE [w EXCEPT !.res = "False"]

(***************************************************************************)
(* One call of a handler is one step: the world it returns becomes the     *)
(* state, and ret, trace, polls and notes describe the call.               *)
(***************************************************************************)
Commit(w, op, arg) ==
    /\ wlan' = w.wlan
    /\ config' = w.config
    /\ networks' = w.networks
    /\ drvActive' = w.active
    /\ drvConnected' = w.connected
    /\ drvIfconfig' = w.ifconfig
    /\ lastScan' = w.lastScan
    /\ ret' = [op |-> op, arg |-> arg, res |-> w.res, raised |-> w.raised,
               conn |-> w.conn, pushed |-> w.pushed, checks |-> w.checks,
               everUp |-> w.everUp, beh |-> w.beh, after |-> ret.conn]
    /\ trace' = w.trace
    /\ polls' = w.polls
    /\ notes' = w.notes
    /\ UNCHANGED store

ForceArg(force) == IF force THEN "force" ELSE "noforce"

Start(force, beh, rejects) ==
    Commit(start(World, store, force, beh, rejects), "start", ForceArg(force))

Connect(ssid, password, beh) ==
    Commit(connect(World, ssid, password, beh), "connect", "")

Disconnect(nargs) ==
    Commit(disconnect(World, nargs), "disconnect", IF nargs = 0 THEN "noargs" ELSE "self")

Configure(p, rejects) ==
    Commit(configure(World, p, rejects), "configure", p)

Scan(force, found) ==
    Commit(scan(World, force, found), "scan", ForceArg(force))

IsActive ==
    Commit([World EXCEPT !.res = IF isActive(World) THEN "True" ELSE "False"],
           "isActive", "")

IsConnected == Commit(isConnected(World), "isConnected", "")

GetInfo == Commit(getInfo(World), "getInfo", "")

IsIpOnInterface(ipAddr) ==
    Commit(isIpOnInterface(World, ipAddr), "isIpOnInterface", ipAddr)

Stop == Commit(stop(World), "stop", "")

(***************************************************************************)
(* The environment: the link drops (the access point goes away), and the   *)
(* persisted configuration is changed or removed by an administrator.      *)
(***************************************************************************)
Event(name) ==
    /\ ret' = [op |-> name, arg |-> "", res |-> "None", raised |-> FALSE,
               conn |-> "none", pushed |-> FALSE, checks |-> 0, everUp |-> FALSE,
               beh |-> NoBehaviour, after |-> ret.conn]
    /\ trace' = <<>>
    /\ polls' = 0
    /\ notes' = {}

LinkDown ==
    /\ drvConnected
    /\ drvConnected' = FALSE
    /\ Event("link_down")
    /\ UNCHANGED <<wlan, config, networks, drvActive, drvIfconfig, store, lastScan>>

StoreChange(st) ==
    /\ st # store
    /\ store' = st
    /\ Event("store_change")
    /\ UNCHANGED <<wlan, config, networks, drvActive, drvConnected, drvIfconfig, lastScan>>

(***************************************************************************)
(* Inputs.                                                                 *)
(***************************************************************************)
\* addresses
StaticIp == <<192, 168, 1, 10>>
StaticMask == <<255, 255, 255, 0>>
StaticGateway == <<192, 168, 1, 1>>
StaticDns == <<8, 8, 8, 8>>
LeasedIp == <<10, 0, 0, 5>>
LeasedMask == <<255, 0, 0, 0>>
LeasedGateway == <<10, 0, 0, 1>>
LeasedDns == <<10, 0, 0, 2>>
GivenIp == <<172, 16, 0, 9>>

\* persisted configurations
Persisted(ok, activated, ip, mask, gw, dns) ==
    [ok |-> ok, activated |-> activated, ssid |-> Bytes("home"),
     wifipassword |-> Bytes("secret"),
     ipaddress |-> Bytes(ip), netmask |-> Bytes(mask),
     gateway |-> Bytes(gw), dns |-> Bytes(dns)]
SomeStores ==
    { Persisted(FALSE, TRUE, Empty, Empty, Empty, Empty),
      Persisted(TRUE, TRUE, Empty, Empty, Empty, Empty),
      Persisted(TRUE, FALSE, Empty, Empty, Empty, Empty) }

\* live interface configurations
Live(ip, mask, gw, dns) == <<Str(ip), Str(mask), Str(gw), Str(dns)>>
SomeLives == { Live(Sentinel, Sentinel, Sentinel, Sentinel) }

\* configure() parameters
NoParams == [f \in AddressFields |-> None]
SomeParams ==
    { NoParams,
      [ipaddress |-> Str(StaticIp), netmask |-> Str(StaticMask),
       gateway |-> Str(StaticGateway), dns |-> Str(StaticDns)] }

\* what the radio can see: (ssid, bssid, channel, rssi, authmode, hidden)
Visible ==
    { <<"home", "b1", 1, -40, 3, FALSE>>,
      <<"cafe", "b2", 6, -60, 0, FALSE>>,
      <<"lab", "b3", 11, -60, 3, FALSE>>,
      <<"far", "b4", 1, -80, 4, TRUE>> }
Distinct(seq) == \A i, j \in DOMAIN seq : i # j => seq[i] # seq[j]
ScanResults ==
    UNION { {seq \in [1..n -> Visible] : Distinct(seq)} : n \in 0..MaxNets }

InitWith(stores, lives) ==
    /\ wlan = "None"
    /\ config = NoConfig
    /\ networks = <<>>
    /\ drvActive = FALSE
    /\ drvConnected = FALSE
    /\ drvIfconfig \in lives
    /\ store \in stores
    /\ ret = [op |-> "init", arg |-> "", res |-> "None", raised |-> FALSE,
              conn |-> "none", pushed |-> FALSE, checks |-> 0, everUp |-> FALSE,
              beh |-> NoBehaviour, after |-> "none"]
    /\ trace = <<>>
    /\ polls = 0
    /\ notes = {}
    /\ lastScan = <<>>

(***************************************************************************)
(* The station's life: every operation, with a few inputs of each kind.    *)
(***************************************************************************)
Init == InitWith(SomeStores, SomeLives)

Next ==
    \/ \E force \in BOOLEAN, beh \in SomeBehaviours : Start(force, beh, FALSE)
    \/ \E beh \in SomeBehaviours : Connect(None, None, beh)
    \/ \E beh \in SomeBehaviours : Connect(Str("guest"), Str("pass"), beh)
    \/ \E nargs \in {0, 1} : Disconnect(nargs)
    \/ \E p \in SomeParams, rejects \in BOOLEAN : Configure(p, rejects)
    \/ \E force \in BOOLEAN, found \in {<<>>, <<<<"home", "b1", 1, -40, 3, FALSE>>>>} :
          Scan(force, found)
    \/ IsActive
    \/ IsConnected
    \/ GetInfo
    \/ IsIpOnInterface(Str(StaticIp))
    \/ Stop
    \/ LinkDown
    \/ \E st \in SomeStores : StoreChange(st)

Spec == Init /\ [][Next]_vars

(***************************************************************************)
(* Network discovery: the station is started and then scans, whatever the  *)
(* radio sees.                                                             *)
(***************************************************************************)
ScanStores == { Persisted(TRUE, TRUE, Empty, Empty, Empty, Empty) }
ScanBehaviours == { Behaviour(1, TRUE), Behaviour(Never, TRUE) }

InitScan == InitWith(ScanStores, SomeLives)

NextScan ==
    \/ \E force \in BOOLEAN, beh \in ScanBehaviours : Start(force, beh, FALSE)
    \/ \E force \in BOOLEAN, found \in ScanResults : Scan(force, found)

SpecScan == InitScan /\ [][NextScan]_vars

(***************************************************************************)
(* Address configuration: the station is started and then configured, for  *)
(* every combination of persisted fields (empty, the sentinel, an address) *)
(* and live fields (the sentinel, a leased address).                       *)
(***************************************************************************)
\* every combination of set and unset fields, and each field alone holding
\* the sentinel beside fields that are all set or all unset
AddressTuples(unset, set) ==
    { <<ip, mask, gw, dns>> :
        ip \in {unset, set[1]}, mask \in {unset, set[2]},
        gw \in {unset, set[3]}, dns \in {unset, set[4]} }
      \cup { [<<base[1], base[2], base[3], base[4]>> EXCEPT ![i] = Sentinel] :
               base \in {<<unset, unset, unset, unset>>, set}, i \in 1..4 }

ConfigureStores ==
    { Persisted(TRUE, TRUE, t[1], t[2], t[3], t[4]) :
        t \in AddressTuples(Empty, <<StaticIp, StaticMask, StaticGateway, StaticDns>>) }
ConfigureLives ==
    { Live(t[1], t[2], t[3], t[4]) :
        t \in { <<Sentinel, Sentinel, Sentinel, Sentinel>>,
                <<LeasedIp, LeasedMask, LeasedGateway, LeasedDns>>,
                <<LeasedIp, LeasedMask, Sentinel, LeasedDns>> } }

\* no parameter, all four parameters, and one parameter alone: an address
\* (as str and as bytes), the empty text, the sentinel
ConfigureParams ==
    { NoParams,
      [f \in AddressFields |-> Str(GivenIp)],
      [NoParams EXCEPT !.ipaddress = Str(GivenIp)],
      [NoParams EXCEPT !.netmask = Bytes(StaticMask)],
      [NoParams EXCEPT !.dns = Str(Empty)],
      [NoParams EXCEPT !.gateway = Str(Sentinel)] }

InitConfigure == InitWith(ConfigureStores, ConfigureLives)

NextConfigure ==
    \/ \E rejects \in BOOLEAN : Start(FALSE, Behaviour(1, TRUE), rejects)
    \/ \E p \in ConfigureParams, rejects \in BOOLEAN : Configure(p, rejects)

SpecConfigure == InitConfigure /\ [][NextConfigure]_vars

(***************************************************************************)
(* Connection attempts: the station is started and connects again after    *)
(* the link is lost, under every behaviour of the driver.                  *)
(***************************************************************************)
InitPoll == InitWith(ScanStores, SomeLives)

NextPoll ==
    \/ \E beh \in AllBehaviours : Start(FALSE, beh, FALSE)
    \/ \E beh \in AllBehaviours : Connect(None, None, beh)
    \/ LinkDown

SpecPoll == InitPoll /\ [][NextPoll]_vars

(***************************************************************************)
(* Subnet membership: the station is started on an interface whose address *)
(* and netmask vary, the link comes and goes, and candidates are tested.   *)
(***************************************************************************)
SubnetAddresses ==
    { <<192, 168, 1, 1>>, <<10, 0, 0, 5>>, <<128, 0, 0, 1>>, <<255, 255, 255, 255>> }
SubnetMasks ==
    { <<0, 0, 0, 0>>, <<255, 0, 0, 0>>, <<255, 255, 254, 0>>, <<255, 255, 255, 0>>,
      <<255, 255, 255, 128>>, <<255, 255, 255, 255>>, <<255, 0, 255, 0>> }
SubnetLives ==
    { Live(ip, mask, LeasedGateway, LeasedDns) :
        ip \in SubnetAddresses, mask \in SubnetMasks }
Candidates ==
    { Str(<<192, 168, 1, 10>>), Bytes(<<192, 168, 1, 10>>), Str(<<192, 168, 1, 129>>),
      Str(<<192, 168, 0, 1>>), Str(<<192, 168, 2, 10>>), Str(<<192, 44, 1, 7>>),
      Str(<<10, 200, 3, 4>>), Bytes(<<11, 0, 0, 5>>), Str(<<0, 0, 0, 0>>),
      Str(<<128, 0, 0, 1>>), Str(<<0, 0, 0, 1>>), Str(<<255, 255, 255, 254>>),
      Str(<<127, 255, 255, 255>>) }

InitSubnet == InitWith(ScanStores, SubnetLives)

NextSubnet ==
    \/ Start(FALSE, Behaviour(1, TRUE), FALSE)
    \/ \E ipAddr \in Candidates : IsIpOnInterface(ipAddr)
    \/ LinkDown

SpecSubnet == InitSubnet /\ [][NextSubnet]_vars

(***************************************************************************)
(* Vocabulary of the properties.                                           *)
(***************************************************************************)
Issued(event) == \E i \in DOMAIN trace : trace[i] = event
IssuedNext(event) == \E i \in DOMAIN trace' : trace'[i] = event

\* the events that command the driver
DriverCommands == {"bind", "ifconfig_set", "active_on", "connect", "active_off",
                   "disconnect", "scan"}

ManagerState == <<wlan, config, networks>>
DriverState == <<drvActive, drvConnected, drvIfconfig>>

\* the manager reports active: the handle is bound and the driver activated
Active == wlan # "None" /\ drvActive

(***************************************************************************)
(* C1.  As claimed: whatever the outcome of the first start()'s connection *)
(* attempt (success or exhausted retries), a second start() with the same  *)
(* persisted configuration leaves the manager and the driver as they were  *)
(* and neither loads the configuration nor binds the driver again.         *)
(***************************************************************************)
C1_SecondStartAlwaysNoop ==
    [][(ret.op = "start" /\ ret.conn \in {"ok", "timeout"} /\ ret'.op = "start")
         => /\ UNCHANGED <<ManagerState, DriverState>>
            /\ ~IssuedNext("load")
            /\ ~IssuedNext("bind")]_vars

(***************************************************************************)
(* C1, as the code has it.  When the first start()'s connection attempt    *)
(* succeeded, a second start() with the same persisted configuration       *)
(* returns true, leaves the manager and the driver as they were and        *)
(* neither loads the configuration nor binds the driver.  When the attempt *)
(* exhausted its retries the driver was deactivated, and the second        *)
(* start() loads the configuration again and, called with the same force,  *)
(* binds the driver again.                                                 *)
(***************************************************************************)
C1_SecondStart ==
    [][(ret.op = "start" /\ ret'.op = "start")
         => /\ ret.conn = "ok"
                 => /\ UNCHANGED <<ManagerState, DriverState>>
                    /\ ret'.res = "True"
                    /\ ~IssuedNext("load")
                    /\ ~IssuedNext("bind")
            /\ ret.conn = "timeout"
                 => /\ IssuedNext("load")
                    /\ ret'.arg = ret.arg => IssuedNext("bind")]_vars

\* a start() that found the station started by an earlier, successful one
C1_Witness ==
    /\ ret.op = "start" /\ ret.res = "True" /\ ret.conn = "none"
    /\ trace = <<"print_config">>
    /\ Active /\ drvConnected

(***************************************************************************)
(* C2.  As claimed: after every call the driver handle is unbound, or      *)
(* bound with the driver activated.                                        *)
(***************************************************************************)
C2_BoundImpliesActivated == wlan # "None" => drvActive

(***************************************************************************)
(* C2, as the code has it.  Once bound the handle is never released, and   *)
(* the driver behind a bound handle is activated unless a connection       *)
(* attempt timed out or disconnect() ended a live connection: only those   *)
(* two leave the handle bound with the driver deactivated.                 *)
(***************************************************************************)
C2_BoundInactiveOnlyByTimeoutOrDisconnect ==
    [][/\ wlan # "None" => wlan' # "None"
       /\ (Active \/ wlan = "None") /\ wlan' # "None" /\ ~drvActive'
            => /\ IssuedNext("active_off")
               /\ \/ ret'.op \in {"start", "connect"} /\ ret'.conn = "timeout"
                  \/ ret'.op = "disconnect"]_vars

\* the handle is bound and the driver deactivated, after a timeout
C2_Witness ==
    wlan # "None" /\ ~drvActive /\ ret.op = "start" /\ ret.conn = "timeout"

(***************************************************************************)
(* C3.  start(force) on an inactive manager returns true exactly when it   *)
(* bound the driver, which it does exactly when the load succeeded and the *)
(* configuration is activated or force is true; once it has bound the      *)
(* driver it returns true whether the connection attempt succeeded or      *)
(* timed out.                                                              *)
(***************************************************************************)
C3_StartResultIsBinding ==
    (ret.op = "start" /\ Issued("load"))
      => /\ ret.res = "True" <=> Issued("bind")
         /\ Issued("bind") <=> (store.ok /\ (store.activated \/ ret.arg = "force"))
         /\ Issued("bind") => ret.conn \in {"ok", "timeout", "already"}
         /\ ret.res \in {"True", "False"}

\* a start() that bound the driver, timed out connecting and returned true
C3_Witness ==
    /\ ret.op = "start" /\ Issued("bind") /\ ret.conn = "timeout"
    /\ ret.res = "True" /\ ~drvActive

(***************************************************************************)
(* C4.  As claimed: with a driver that never reports connected, connect()  *)
(* makes exactly 120 passes of its poll loop, returns false and leaves the *)
(* driver deactivated.                                                     *)
(***************************************************************************)
C4_ExactlyMaxCountPolls ==
    (ret.op = "connect" /\ Issued("connect") /\ ~ret.everUp)
      => polls = MaxCount /\ ret.res = "False" /\ ~drvActive

(***************************************************************************)
(* C5.  As claimed: after configure() each address field holds the         *)
(* parameter if one was given; else the stored value if that is neither    *)
(* empty nor the sentinel; else the live driver value; in each case with   *)
(* the sentinel turned into the empty text.  The stored value is the       *)
(* active configuration's for a call of configure(), and the persisted one *)
(* for the configure() that start() makes after loading it.                *)
(***************************************************************************)
ClaimedField(param, stored, live) ==
    LET v == IF ~IsNone(param) THEN tobytes(param)
             ELSE IF stored # Bytes(Empty) /\ stored # Bytes(Sentinel) THEN stored
             ELSE tobytes(live)
    IN  IF v = Bytes(Sentinel) THEN Bytes(Empty) ELSE v

C5_StoredSentinelFallsBackToLive ==
    [][/\ (ret'.op = "configure" /\ ~ret'.raised)
            => \A f \in AddressFields :
                 config'[f] = ClaimedField(ret'.arg[f], config[f],
                                           drvIfconfig[FieldIndex(f)])
       /\ (ret'.op = "start" /\ IssuedNext("bind"))
            => \A f \in AddressFields :
                 config'[f] = ClaimedField(None, store[f],
                                           drvIfconfig[FieldIndex(f)])]_vars

(***************************************************************************)
(* C6.  configure(), called directly or by start(), hands a static address *)
(* assignment to the driver exactly when all four fields resolve to a      *)
(* non-empty value; the driver's address configuration changes in no other *)
(* step, and when it changes it becomes the four resolved fields.          *)
(***************************************************************************)
AllFourSet(c) ==
    /\ c.ipaddress # Bytes(Empty) /\ c.netmask # Bytes(Empty)
    /\ c.gateway # Bytes(Empty) /\ c.dns # Bytes(Empty)

C6_StaticOnlyWhenAllFour ==
    [][/\ ((ret'.op = "configure" /\ ~ret'.raised)
              \/ (ret'.op = "start" /\ IssuedNext("bind")))
            => /\ IssuedNext("ifconfig_set") <=> AllFourSet(config')
               /\ ret'.pushed <=> AllFourSet(config')
       /\ drvIfconfig' # drvIfconfig
            => /\ ret'.op \in {"configure", "start"}
               /\ AllFourSet(config')
               /\ drvIfconfig' = <<tostrings(config'.ipaddress), tostrings(config'.netmask),
                                   tostrings(config'.gateway), tostrings(config'.dns)>>]_vars

\* a configure() that resolved the address and the netmask but not the
\* gateway, and handed nothing to the driver
C6_Witness ==
    /\ ret.op = "configure" /\ ~ret.raised /\ ~ret.pushed
    /\ config.ipaddress # Bytes(Empty) /\ config.netmask # Bytes(Empty)
    /\ config.gateway = Bytes(Empty)
    /\ ~Issued("ifconfig_set")

(***************************************************************************)
(* C7.  After a fresh scan the cache is the driver's list stably sorted by *)
(* descending signal strength and projected to (ssid, channel, authmode):  *)
(* some one-to-one correspondence takes each cache entry to the driver's   *)
(* entry it is the projection of, strengths do not increase along the      *)
(* cache, and entries of equal strength keep the driver's order.           *)
(***************************************************************************)
Bijections(n) ==
    {p \in [1..n -> 1..n] : \A i, j \in 1..n : i # j => p[i] # p[j]}

IsStableRanking(cache, found) ==
    /\ Len(cache) = Len(found)
    /\ \E p \in Bijections(Len(found)) :
         /\ \A i \in 1..Len(cache) :
              cache[i] = <<found[p[i]][1], found[p[i]][3], found[p[i]][5]>>
         /\ \A i, j \in 1..Len(cache) :
              i < j => \/ found[p[i]][4] > found[p[j]][4]
                       \/ found[p[i]][4] = found[p[j]][4] /\ p[i] < p[j]

C7_CacheIsStableRanking ==
    (ret.op = "scan" /\ Issued("scan")) => IsStableRanking(networks, lastScan)

\* a fresh scan of a list that is out of order and holds two equal strengths
C7_Witness ==
    /\ ret.op = "scan" /\ Issued("scan")
    /\ Len(lastScan) = MaxNets
    /\ \E i, j \in DOMAIN lastScan : i < j /\ lastScan[i][4] < lastScan[j][4]
    /\ \E i, j \in DOMAIN lastScan : i < j /\ lastScan[i][4] = lastScan[j][4]

(***************************************************************************)
(* C8.  As claimed: whatever the driver's scan returned (an empty list     *)
(* included), a scan(force=false) that follows a scan(force=false) on a    *)
(* bound manager returns the same result and does not ask the driver.      *)
(***************************************************************************)
C8_SecondScanUsesCache ==
    [][(ret.op = "scan" /\ ret.arg = "noforce" /\ ~ret.raised
          /\ ret'.op = "scan" /\ ret'.arg = "noforce")
         => ~IssuedNext("scan") /\ networks' = networks]_vars

(***************************************************************************)
(* C9.  As claimed: on a manager whose driver handle was never bound,      *)
(* every public operation returns a failure value (false or nothing) and   *)
(* none raises.                                                            *)
(***************************************************************************)
PublicOperations ==
    {"connect", "disconnect", "configure", "scan", "isConnected", "isActive",
     "getInfo", "isIpOnInterface", "stop"}

C9_UnboundNeverRaises ==
    (wlan = "None" /\ ret.op \in PublicOperations)
      => ~ret.raised /\ ret.res \in {"False", "None"}

(***************************************************************************)
(* C10.  start(force) on an inactive manager whose configuration fails to  *)
(* load, or loads with activated false while force is false, returns false *)
(* and leaves the driver handle, the active configuration, the cached      *)
(* networks and the driver as they were: it commands the driver in no way. *)
(***************************************************************************)
C10_RefusedStartChangesNothing ==
    [][(ret'.op = "start" /\ ~Active
          /\ (~store.ok \/ (~store.activated /\ ret'.arg = "noforce")))
         => /\ ret'.res = "False"
            /\ UNCHANGED <<ManagerState, DriverState>>
            /\ \A i \in DOMAIN trace' : trace'[i] \notin DriverCommands]_vars

\* a refused start() on a manager that is bound, deactivated and has a cache
C10_Witness ==
    /\ ret.op = "start" /\ ret.res = "False"
    /\ wlan # "None" /\ ~drvActive /\ networks # <<>>

(***************************************************************************)
(* C11.  As claimed: disconnect() called with no arguments on a bound      *)
(* manager completes without error; when the driver reports connected it   *)
(* issues the driver's disconnect and then deactivates the driver, in that *)
(* order, and when the driver is not connected it issues nothing and       *)
(* leaves the manager and the driver as they were.                         *)
(***************************************************************************)
C11_DisconnectNoArgs ==
    [][(ret'.op = "disconnect" /\ ret'.arg = "noargs" /\ wlan # "None")
         => /\ ~ret'.raised
            /\ drvConnected
                 => /\ trace' = <<"disconnect", "active_off">>
                    /\ ~drvConnected' /\ ~drvActive'
            /\ ~drvConnected
                 => /\ trace' = <<>>
                    /\ UNCHANGED <<ManagerState, DriverState>>]_vars

C13_RejectionIsCaught ==
    [][IssuedNext("ifconfig_refused")
         => /\ ret'.op \in {"configure", "start"}
            /\ IssuedNext("print_error")
            /\ ret'.pushed
            /\ ~ret'.raised
            /\ wlan' # "None"
            /\ drvIfconfig' = drvIfconfig
            /\ ret'.op = "start"
                 => /\ ret'.res = "True"
                    /\ ret'.conn \in {"ok", "timeout"}
                    /\ \E i, j, k \in DOMAIN trace' :
                         /\ i < j /\ j < k
                         /\ trace'[i] = "print_error"
                         /\ trace'[j] = "active_on"
                         /\ trace'[k] = "connect"]_vars

\* a start() whose static assignment the driver refused
C13_Witness ==
    /\ ret.op = "start" /\ Issued("ifconfig_refused") /\ ret.res = "True"
    /\ wlan # "None" /\ drvConnected

(***************************************************************************)
(* C14.  connect() called on a bound manager whose driver already reports  *)
(* connected returns true without activating, connecting or deactivating   *)
(* the driver: it issues no driver command, runs no poll and leaves the    *)
(* driver's active flag, connection state and addresses as they were.      *)
(***************************************************************************)
C14_ConnectWhenConnected ==
    [][(ret'.op = "connect" /\ wlan # "None" /\ drvConnected)
         => /\ ret'.res = "True" /\ ~ret'.raised
            /\ \A i \in DOMAIN trace' : trace'[i] \notin DriverCommands
            /\ polls' = 0
            /\ UNCHANGED <<DriverState, wlan, networks>>]_vars

\* a connect() that found the link up and replaced the ssid
C14_Witness ==
    /\ ret.op = "connect" /\ ret.conn = "already" /\ ret.res = "True"
    /\ drvConnected /\ drvActive /\ config.ssid = Str("guest")

(***************************************************************************)
(* C15.  Whatever the driver does (the link comes up at any poll, never    *)
(* comes up, or comes up and is lost again at once), connect() returns     *)
(* true only when the driver's last answer to isconnected() before the     *)
(* return was true, false only when that answer was false, and when it     *)
(* returns false deactivating the driver is the last thing it did.         *)
(***************************************************************************)
C15_ResultIsLastAnswer ==
    [][(ret'.op = "connect" /\ ~ret'.raised)
         => /\ ret'.res \in {"True", "False"}
            /\ ret'.res = "True"
                 => IF IssuedNext("connect")
                    THEN Answer(ret'.beh, ret'.checks)
                    ELSE drvConnected
            /\ ret'.res = "False"
                 => /\ IssuedNext("connect")
                    /\ ~Answer(ret'.beh, ret'.checks)
                    /\ trace'[Len(trace')] = "active_off"
                    /\ ~drvActive']_vars

\* a connect() whose loop ended because the link came up, after at least one
\* notification, and whose last check found it lost again
C15_Witness ==
    /\ ret.op = "connect" /\ ret.res = "False"
    /\ ret.everUp /\ polls > NotifyEvery /\ polls < MaxCount
    /\ ~drvActive

(***************************************************************************)
(* C16.  isIpOnInterface(candidate) returns false when the manager is      *)
(* unbound or the driver is not connected.  Otherwise it returns true      *)
(* exactly when the candidate and the live interface address agree on      *)
(* every bit that is set in the live netmask, the addresses being read as  *)
(* 32 bit integers with the first octet the most significant.              *)
(***************************************************************************)
\* bit k (0 the least significant) of the 32 bit value of a dotted quad
AddressBit(quad, k) == (quad[4 - (k \div 8)] \div (2 ^ (k % 8))) % 2

SameSubnet(candidate, address, mask) ==
    \A k \in 0..31 :
        AddressBit(mask, k) = 1 => AddressBit(candidate, k) = AddressBit(address, k)

C16_SubnetMembership ==
    ret.op = "isIpOnInterface"
      => /\ ~ret.raised
         /\ IF wlan # "None" /\ drvConnected
            THEN ret.res = "True"
                   <=> SameSubnet(ret.arg[2], drvIfconfig[1][2], drvIfconfig[2][2])
            ELSE ret.res = "False"
         /\ ret.res \in {"True", "False"}

\* a candidate that differs from the interface address only in bits the
\* netmask leaves out, below the first octet, and is found on the interface
C16_Witness ==
    /\ ret.op = "isIpOnInterface" /\ ret.res = "True"
    /\ wlan # "None" /\ drvConnected
    /\ drvIfconfig[2][2] = <<255, 255, 254, 0>>
    /\ ret.arg[2] = <<192, 168, 0, 1>>
    /\ drvIfconfig[1][2] = <<192, 168, 1, 1>>

(***************************************************************************)
(* C17.  As claimed: once a connection attempt inside start() or connect() *)
(* has timed out the manager is not active, isActive() reports false, and  *)
(* the start() that follows does not take the already-started shortcut but *)
(* performs the full sequence again: load the configuration, bind the      *)
(* driver, clear the cache, configure, connect.                            *)
(***************************************************************************)
IsStartStep(event) ==
    event \in {"load", "bind", "clear_networks", "configure", "connect"}
FullSequence == <<"load", "bind", "clear_networks", "configure", "connect">>

C17_StartAfterTimeoutRunsFullSequence ==
    [][/\ (ret'.op \in {"start", "connect"} /\ ret'.conn = "timeout") => ~Active'
       /\ (ret.conn = "timeout" /\ ret'.op = "isActive") => ret'.res = "False"
       /\ (ret.conn = "timeout" /\ ret'.op = "start")
            => SelectSeq(trace', IsStartStep) = FullSequence]_vars

(***************************************************************************)
(* C17, as the code has it.  A timed-out attempt leaves no failed state    *)
(* behind: the manager is not active, isActive() reports false, and the    *)
(* start() that follows does not take the already-started shortcut but     *)
(* loads the configuration again.  It then performs the rest of the        *)
(* sequence (bind, clear the cache, configure, connect) exactly when the   *)
(* load succeeds and the configuration is activated or force is true;      *)
(* otherwise it returns false and does not bind the driver.                *)
(***************************************************************************)
C17_StartAfterTimeoutLoadsAgain ==
    [][/\ (ret'.op \in {"start", "connect"} /\ ret'.conn = "timeout") => ~Active'
       /\ (ret.conn = "timeout" /\ ret'.op = "isActive") => ret'.res = "False"
       /\ (ret.conn = "timeout" /\ ret'.op = "start")
            => /\ trace'[1] = "load"
               /\ IF store.ok /\ (store.activated \/ ret'.arg = "force")
                  THEN SelectSeq(trace', IsStartStep) = FullSequence
                  ELSE /\ SelectSeq(trace', IsStartStep) = <<"load">>
                       /\ ret'.res = "False"]_vars

\* a start() that follows a timed-out attempt, ran the full sequence and connected
C17_Witness ==
    /\ ret.op = "start" /\ ret.after = "timeout"
    /\ SelectSeq(trace, IsStartStep) = FullSequence
    /\ ret.conn = "ok" /\ Active

(***************************************************************************)
(* C18.  Sentinel invariant: whenever the manager has an active            *)
(* configuration, that is after a start() that bound the driver and after  *)
(* every configure() that returned, none of its address fields (ip,        *)
(* netmask, gateway, dns) holds "0.0.0.0", whatever was persisted, passed  *)
(* as a parameter or reported live by the driver.                          *)
(***************************************************************************)
C18_NoSentinelInActiveConfig ==
    ~config.isNone
      => \A f \in AddressFields :
           /\ config[f][1] = "bytes"
           /\ config[f][2] # Sentinel

\* a configure() that was passed the sentinel as gateway while the driver
\* reported a real gateway: the field is empty
C18_Witness ==
    /\ ret.op = "configure" /\ ~ret.raised
    /\ ret.arg.gateway = Str(Sentinel)
    /\ drvIfconfig[3] = Str(LeasedGateway)
    /\ config.gateway = Bytes(Empty)
    /\ config.ipaddress = Bytes(LeasedIp)

(***************************************************************************)
(* C19.  connect() returns under every behaviour of the driver: its poll   *)
(* loop makes at most MaxCount + 1 passes and asks the driver at most      *)
(* MaxCount + 2 times in all, and the loop is left in one of two ways      *)
(* only: the driver answered that it is connected, or the attempt counter  *)
(* passed MaxCount.                                                        *)
(***************************************************************************)
C19_PollLoopIsBounded ==
    (ret.op \in {"connect", "start"} /\ Issued("connect"))
      => /\ ret.res \in {"True", "False"}
         /\ polls <= MaxCount + 1
         /\ ret.checks <= MaxCount + 2
         /\ \/ polls = MaxCount + 1 /\ ret.checks = polls + 1
            \/ /\ polls <= MaxCount
               /\ ret.checks = polls + 2
               /\ Answer(ret.beh, polls + 1)
               /\ \A i \in 1..polls : ~Answer(ret.beh, i)

\* a connect() whose loop was left by the attempt bound: the driver never
\* reported a connection
C19_Witness ==
    /\ ret.op = "connect" /\ Issued("connect")
    /\ polls = MaxCount + 1 /\ ~ret.everUp /\ ret.res = "False"
    /\ ret.checks = MaxCount + 2

(***************************************************************************)
(* C20.  A start() that binds the driver does so in this order: bind the   *)
(* driver, store the loaded configuration as the active one, clear the     *)
(* cached networks, configure the addresses (the static assignment, when   *)
(* there is one, is handed to the driver here), and only then ask the      *)
(* driver to connect.  The cache is therefore empty when that start()      *)
(* returns, and a scan(force=false) that comes next asks the driver.       *)
(***************************************************************************)
IsBindStep(event) ==
    event \in {"bind", "set_config", "clear_networks", "configure", "ifconfig_set",
               "connect"}

C20_BindOrderAndEmptyCache ==
    [][/\ (ret'.op = "start" /\ IssuedNext("bind"))
            => /\ SelectSeq(trace', IsBindStep) \in
                    { <<"bind", "set_config", "clear_networks", "configure", "connect">>,
                      <<"bind", "set_config", "clear_networks", "configure",
                        "ifconfig_set", "connect">> }
               /\ networks' = <<>>
               /\ config' # NoConfig /\ wlan' # "None"
       /\ (ret.op = "start" /\ Issued("bind") /\ ret'.op = "scan" /\ ret'.arg = "noforce")
            => /\ IssuedNext("scan")
               /\ ~ret'.raised]_vars

\* a start() that bound the driver again, handed it a static assignment and
\* dropped the cache a scan had filled
C20_Witness ==
    /\ ret.op = "start" /\ Issued("bind") /\ Issued("ifconfig_set")
    /\ lastScan # <<>> /\ networks = <<>>

(***************************************************************************)
(* C21.  In connect()'s poll loop the "Try wifi connection" notification   *)
(* comes with the first pass and with every 6th pass after it, so that any *)
(* 6 consecutive passes hold exactly one notification.  Notifying changes  *)
(* neither the number of passes nor the result: the loop makes one pass    *)
(* for each negative answer of the driver, up to MaxCount + 1, and the     *)
(* result is the driver's last answer.                                     *)
(***************************************************************************)
C21_NotifiesEverySixthPoll ==
    (ret.op \in {"connect", "start"} /\ Issued("connect"))
      => /\ notes = {p \in 1..polls : (p - 1) % NotifyEvery = 0}
         /\ \A first \in 1..(polls - NotifyEvery + 1) :
              Cardinality(notes \cap (first..(first + NotifyEvery - 1))) = 1
         /\ polls = IF ret.beh.up <= MaxCount + 1 THEN ret.beh.up - 1 ELSE MaxCount + 1
         /\ ret.conn = IF Answer(ret.beh, ret.checks) THEN "ok" ELSE "timeout"

\* a connect() that made every pass the bound allows: 21 notifications, the
\* last one in the last pass
C21_Witness ==
    /\ ret.op = "connect" /\ polls = MaxCount + 1
    /\ Cardinality(notes) = MaxCount \div NotifyEvery + 1
    /\ polls \in notes /\ 1 \in notes /\ NotifyEvery \notin notes

(***************************************************************************)
(* C22.  As claimed: configure() with no parameters is idempotent.  When   *)
(* it follows a configure() with no parameters, be it a call of its own or *)
(* the one start() makes on the configuration it has just loaded, it       *)
(* leaves the active configuration as that call left it and takes the same *)
(* decision on the static assignment, with the same four values.  (No      *)
(* step of this specification other than configure changes the driver's    *)
(* live addresses.)                                                        *)
(***************************************************************************)
C22_ConfigureIsIdempotent ==
    [][(/\ ret'.op = "configure" /\ ret'.arg = NoParams /\ ~ret'.raised
        /\ \/ ret.op = "configure" /\ ret.arg = NoParams /\ ~ret.raised
           \/ ret.op = "start" /\ Issued("bind"))
         => /\ config' = config
            /\ ret'.pushed <=> ret.pushed
            /\ (ret'.pushed /\ ~Issued("ifconfig_refused") /\ ~IssuedNext("ifconfig_refused"))
                 => drvIfconfig' = drvIfconfig]_vars

====
